---- MODULE Spec2Model ----
(***************************************************************************)
(* Model of src/app.ts: an express application with two routes,            *)
(* POST /register and POST /login, over the in-memory object MEMORY_DB.    *)
(*                                                                         *)
(* JavaScript strings are sequences of one-character strings, so that the  *)
(* length rules and the character-class regular expressions of the         *)
(* validation schema are computed and not assumed.  A JSON value of a body *)
(* field is a record [t, v]: t is "undef" (key absent), "num" (a value     *)
(* that is not a string) or "str"; v is the sequence of characters.        *)
(*                                                                         *)
(* Node runs one callback at a time and every call of the two middleware   *)
(* chains is synchronous (genSaltSync, hashSync, compareSync, next()), so  *)
(* a request is handled in one step; what interleaves is the arrival of    *)
(* requests (express.json() reads the body asynchronously) and the order   *)
(* in which the arrived requests are handled.                              *)
(***************************************************************************)
EXTENDS Integers, Sequences, FiniteSets, TLC

VARIABLES
    MEMORY_DB,   \* own properties of the object: username -> UserEntry
    inflight,    \* requests whose body is parsed and whose handler has not run
    log,         \* handled requests in handling order: the request, its
                 \* response, the number of records it leaves and the ids of
                 \* the requests in flight while it was handled
    nextId       \* number of requests sent so far + 1

vars == <<MEMORY_DB, inflight, log, nextId>>

----------------------------------------------------------------------------
(* Bounds *)

\* total number of requests sent in one behaviour of Spec
MaxRequests == 3

\* number of requests that are in flight at the same time
MaxInflight == 2

----------------------------------------------------------------------------
(* Characters and strings *)

UpperChars ==
    {"A","B","C","D","E","F","G","H","I","J","K","L","M",
     "N","O","P","Q","R","S","T","U","V","W","X","Y","Z"}

LowerChars ==
    {"a","b","c","d","e","f","g","h","i","j","k","l","m",
     "n","o","p","q","r","s","t","u","v","w","x","y","z"}

DigitChars == {"0","1","2","3","4","5","6","7","8","9"}

Undef == [t |-> "undef", v |-> <<>>]

Str(s) == [t |-> "str", v |-> s]

\* a JSON number: any value that is not a string
Num == [t |-> "num", v |-> <<"7">>]

IsString(x) == x.t = "str"

\* the n-character string whose characters are given by head, then fill
Fill(head, fill, n) ==
    [i \in 1..n |-> IF i <= Len(head) THEN head[i] ELSE fill]

----------------------------------------------------------------------------
(* Sample strings *)

alice == <<"a","l","i","c","e">>

bob == <<"b","o","b">>

\* a property name of Object.prototype
constructor == <<"c","o","n","s","t","r","u","c","t","o","r">>

emailA == <<"a","@","x",".","c","o","m">>

emailB == <<"b","@","x",".","c","o","m">>

typeUser == <<"u","s","e","r">>

typeAdmin == <<"a","d","m","i","n">>

pwAbc == <<"A","b","c","!","2">>

pwXyz == <<"X","y","z","#","9">>

\* a password that violates the registration policy (no upper, no special)
pwWrong == <<"w","r","o","n","g">>

----------------------------------------------------------------------------
(* joi schemas.  joi validates the keys of an object schema in the order   *)
(* of their declaration and, with the default abortEarly, throws on the    *)
(* first error; for one key the order is: presence, disallowed values      *)
(* (the empty string for string()), the base type, then the rules in the   *)
(* order they were chained.                                                *)

NoError == ""

\* the label of a key in a joi message
Quoted(key) == "\"" \o key \o "\""

\* joi.string().required(): presence, empty string, base type
stringRequired(key, x) ==
    IF x.t = "undef" THEN Quoted(key) \o " is required"
    ELSE IF x = Str(<<>>) THEN Quoted(key) \o " is not allowed to be empty"
    ELSE IF ~IsString(x) THEN Quoted(key) \o " must be a string"
    ELSE NoError

\* .min(n) and .max(n) of a string schema
stringMin(key, x, n) ==
    IF Len(x.v) < n
    THEN Quoted(key) \o " length must be at least " \o ToString(n)
             \o " characters long"
    ELSE NoError

stringMax(key, x, n) ==
    IF Len(x.v) > n
    THEN Quoted(key) \o " length must be less than or equal to "
             \o ToString(n) \o " characters long"
    ELSE NoError

\* the first error of a chain of rules
FirstMessage(errs) ==
    LET bad == {i \in DOMAIN errs : errs[i] # NoError}
    IN  IF bad = {} THEN NoError
        ELSE errs[CHOOSE i \in bad : \A j \in bad : i <= j]

\* positions of the character c in the string s
Positions(s, c) == {i \in DOMAIN s : s[i] = c}

\* .email(): one "@", a local part, and a domain of at least two non-empty
\* segments separated by "."
IsEmail(s) ==
    /\ Cardinality(Positions(s, "@")) = 1
    /\ LET at == CHOOSE i \in Positions(s, "@") : TRUE
           dots == {i \in Positions(s, ".") : i > at}
       IN  /\ at > 1
           /\ dots # {}
           /\ at + 1 \notin dots
           /\ Len(s) \notin dots
           /\ \A i \in dots : i + 1 \notin dots

\* username: joi.string().min(3).max(24).required()
usernameRule(x) ==
    IF stringRequired("username", x) # NoError
    THEN stringRequired("username", x)
    ELSE FirstMessage(<<stringMin("username", x, 3),
                        stringMax("username", x, 24)>>)

\* email: joi.string().email().required()
emailRule(x) ==
    IF stringRequired("email", x) # NoError
    THEN stringRequired("email", x)
    ELSE IF ~IsEmail(x.v) THEN Quoted("email") \o " must be a valid email"
    ELSE NoError

\* type: joi.valid('user', 'admin').required()
typeRule(x) ==
    IF x.t = "undef" THEN Quoted("type") \o " is required"
    ELSE IF x \notin {Str(typeUser), Str(typeAdmin)}
    THEN Quoted("type") \o " must be one of [user, admin]"
    ELSE NoError

\* a custom rule that tests the lower case class first
passwordCustom_LowerFirst(value) ==
    LET upper == \E i \in DOMAIN value : value[i] \in UpperChars
        lower == \E i \in DOMAIN value : value[i] \in LowerChars
        special == ~ \A i \in DOMAIN value :
                        value[i] \in LowerChars \cup UpperChars \cup DigitChars
    IN  IF ~lower THEN "password must have a lower case character"
        ELSE IF ~upper THEN "password must have an upper case character"
        ELSE IF ~special
        THEN "password must have a special case character"
        ELSE NoError

\* the .custom() rule of password: the three regular expression tests
passwordCustom(value) ==
    LET upper == \E i \in DOMAIN value : value[i] \in UpperChars
        lower == \E i \in DOMAIN value : value[i] \in LowerChars
        special == ~ \A i \in DOMAIN value :
                        value[i] \in LowerChars \cup UpperChars \cup DigitChars
    IN  IF ~upper THEN "password must have an upper case character"
        ELSE IF ~lower THEN "password must have a lower case character"
        ELSE IF ~special
        THEN "password must have a special case character"
        ELSE NoError

\* password: joi.string().required().min(5).max(24).custom(...)
passwordRule(x) ==
    IF stringRequired("password", x) # NoError
    THEN stringRequired("password", x)
    ELSE FirstMessage(<<stringMin("password", x, 5),
                        stringMax("password", x, 24),
                        passwordCustom(x.v)>>)

\* a schema whose keys are declared in the order password, type, email,
\* username
validateRegistration_PasswordFirst(body) ==
    FirstMessage(<<passwordRule(body.password),
                   typeRule(body.type),
                   emailRule(body.email),
                   usernameRule(body.username)>>)

\* the message thrown by joi.attempt(body, schema) of validateRegistration,
\* NoError when the body is accepted
validateRegistration(body) ==
    FirstMessage(<<usernameRule(body.username),
                   emailRule(body.email),
                   typeRule(body.type),
                   passwordRule(body.password)>>)

\* the message thrown by joi.attempt(body, schema) of validateLogin
validateLogin(body) ==
    FirstMessage(<<stringRequired("username", body.username),
                   stringRequired("password", body.password)>>)

----------------------------------------------------------------------------
(* The memory database *)

\* names that every object literal inherits from Object.prototype
toString == <<"t","o","S","t","r","i","n","g">>

protoKey == <<"_","_","p","r","o","t","o","_","_">>

ObjectPrototypeKeys == {constructor, toString, protoKey}

\* the value undefined
Undefined == [kind |-> "undefined"]

\* a property found on Object.prototype: a function or object, not a UserEntry
Inherited == [kind |-> "inherited"]

UserEntry(email, type, salt, passwordhash) ==
    [kind |-> "entry", email |-> email, type |-> type, salt |-> salt,
     passwordhash |-> passwordhash]

\* ToBoolean of a value returned by a lookup
Truthy(x) == x.kind # "undefined"

\* MEMORY_DB[name]: own properties first, then the prototype chain of {}
getUserByUsername(name) ==
    IF name \in DOMAIN MEMORY_DB THEN MEMORY_DB[name]
    ELSE IF name \in ObjectPrototypeKeys THEN Inherited
    ELSE Undefined

\* a lookup by email that finds nothing
getUserByEmail_NoScan(email) == Undefined

\* Object.values(MEMORY_DB).find((u) => u.email === email): own values only
getUserByEmail(email) ==
    IF \E k \in DOMAIN MEMORY_DB : MEMORY_DB[k].email = email
    THEN MEMORY_DB[CHOOSE k \in DOMAIN MEMORY_DB : MEMORY_DB[k].email = email]
    ELSE Undefined

----------------------------------------------------------------------------
(* bcryptjs *)

\* the values genSaltSync() can return
Salts == {"salt1", "salt2"}

\* hashSync(password, salt): the hash embeds the salt
hashSync(password, salt) == <<"$2a$", salt, password>>

\* compareSync(password, hash): hashes password with the salt found in hash
compareSync(password, hash) == hashSync(password, hash[2]) = hash

----------------------------------------------------------------------------
(* Errors and responses *)

\* the characters of s as one string
Text(s) ==
    LET RECURSIVE T(_)
        T(i) == IF i > Len(s) THEN "" ELSE s[i] \o T(i + 1)
    IN  T(1)

UsernameAlreadyExists(username) ==
    [name |-> "UsernameAlreadyExists", status |-> 409,
     message |-> "A user with the username " \o Text(username)
                     \o " already exists."]

EmailAlreadyExists(email) ==
    [name |-> "EmailAlreadyExists", status |-> 409,
     message |-> "A user with the email " \o Text(email)
                     \o " already exists."]

InvalidCredentials ==
    [name |-> "InvalidCredentials", status |-> 401,
     message |-> "Invalid username/password."]

\* what compareSync throws when its second argument is not a string
IllegalArguments ==
    [name |-> "Error", status |-> 0,
     message |-> "Illegal arguments: string, undefined"]

Response(status, body) == [status |-> status, body |-> body]

\* an error handler that answers every error of the three classes with 400
errorHandler_FixedStatus(err) ==
    IF err.name \in {"UsernameAlreadyExists", "EmailAlreadyExists",
                     "InvalidCredentials"}
    THEN Response(400,
                  [error_name |-> err.name, error_message |-> err.message])
    ELSE Response(500, [unhandled |-> err.message])

\* errorHandler: the three error classes are answered with their status;
\* any other error goes to next(err), where the default handler of express
\* answers 500
errorHandler(err) ==
    IF err.name \in {"UsernameAlreadyExists", "EmailAlreadyExists",
                     "InvalidCredentials"}
    THEN Response(err.status,
                  [error_name |-> err.name, error_message |-> err.message])
    ELSE Response(500, [unhandled |-> err.message])

----------------------------------------------------------------------------
(* Middleware and handlers.  A handler yields the response and the value   *)
(* of MEMORY_DB it leaves.                                                 *)

Outcome(res, db) == [res |-> res, db |-> db]

\* MEMORY_DB[username] = entry
Put(username, entry) ==
    [k \in DOMAIN MEMORY_DB \cup {username} |->
        IF k = username THEN entry ELSE MEMORY_DB[k]]

\* validateReqBody: answers 400 with the message of joi, or calls next()
validateReqBody(message, next) ==
    IF message # NoError
    THEN Outcome(Response(400, [error |-> message]), MEMORY_DB)
    ELSE next

\* a handler that writes the record before it looks for the email
registerHandler_WriteFirst(body, salt) ==
    LET username == body.username.v
        email == body.email.v
        written == Put(username,
                       UserEntry(email, body.type.v, salt,
                                 hashSync(body.password.v, salt)))
    IN  IF Truthy(getUserByUsername(username))
        THEN Outcome(errorHandler(UsernameAlreadyExists(username)), MEMORY_DB)
        ELSE IF Truthy(getUserByEmail(email))
        THEN Outcome(errorHandler(EmailAlreadyExists(email)), written)
        ELSE Outcome(Response(201, [username |-> username, email |-> email,
                                    type |-> body.type.v]),
                     written)

\* a handler that does not look for the username
registerHandler_NoUsernameCheck(body, salt) ==
    LET username == body.username.v
        email == body.email.v
    IN  IF Truthy(getUserByEmail(email))
        THEN Outcome(errorHandler(EmailAlreadyExists(email)), MEMORY_DB)
        ELSE Outcome(Response(201, [username |-> username, email |-> email,
                                    type |-> body.type.v]),
                     Put(username,
                         UserEntry(email, body.type.v, salt,
                                   hashSync(body.password.v, salt))))

\* a handler that answers with the stored entry
registerHandler_EchoEntry(body, salt) ==
    LET username == body.username.v
        email == body.email.v
    IN  IF Truthy(getUserByUsername(username))
        THEN Outcome(errorHandler(UsernameAlreadyExists(username)), MEMORY_DB)
        ELSE IF Truthy(getUserByEmail(email))
        THEN Outcome(errorHandler(EmailAlreadyExists(email)), MEMORY_DB)
        ELSE Outcome(Response(201, [username |-> username, email |-> email,
                                    type |-> body.type.v, salt |-> salt,
                                    passwordhash |->
                                        hashSync(body.password.v, salt)]),
                     Put(username,
                         UserEntry(email, body.type.v, salt,
                                   hashSync(body.password.v, salt))))

\* a handler that looks for the email before the username
registerHandler_EmailFirst(body, salt) ==
    LET username == body.username.v
        email == body.email.v
    IN  IF Truthy(getUserByEmail(email))
        THEN Outcome(errorHandler(EmailAlreadyExists(email)), MEMORY_DB)
        ELSE IF Truthy(getUserByUsername(username))
        THEN Outcome(errorHandler(UsernameAlreadyExists(username)), MEMORY_DB)
        ELSE Outcome(Response(201, [username |-> username, email |-> email,
                                    type |-> body.type.v]),
                     Put(username,
                         UserEntry(email, body.type.v, salt,
                                   hashSync(body.password.v, salt))))

\* the handler of POST /register; salt is the value genSaltSync() returns
registerHandler(body, salt) ==
    LET username == body.username.v
        email == body.email.v
        password == body.password.v
        type == body.type.v
    IN  IF Truthy(getUserByUsername(username))
        THEN Outcome(errorHandler(UsernameAlreadyExists(username)), MEMORY_DB)
        ELSE IF Truthy(getUserByEmail(email))
        THEN Outcome(errorHandler(EmailAlreadyExists(email)), MEMORY_DB)
        ELSE Outcome(Response(201, [username |-> username, email |-> email,
                                    type |-> type]),
                     Put(username,
                         UserEntry(email, type, salt,
                                   hashSync(password, salt))))

\* a handler that removes the record after a login with a wrong password
loginHandler_Lockout(body) ==
    LET username == body.username.v
        password == body.password.v
        user == getUserByUsername(username)
    IN  IF ~Truthy(user)
        THEN Outcome(errorHandler(InvalidCredentials), MEMORY_DB)
        ELSE IF user.kind = "inherited"
        THEN Outcome(errorHandler(IllegalArguments), MEMORY_DB)
        ELSE IF ~compareSync(password, user.passwordhash)
        THEN Outcome(errorHandler(InvalidCredentials),
                     [k \in DOMAIN MEMORY_DB \ {username} |-> MEMORY_DB[k]])
        ELSE Outcome(Response(200, <<>>), MEMORY_DB)

\* the handler of POST /login; compareSync throws on the hash of a value
\* that is not a UserEntry, and express passes the error to errorHandler
loginHandler(body) ==
    LET username == body.username.v
        password == body.password.v
        user == getUserByUsername(username)
    IN  IF ~Truthy(user)
        THEN Outcome(errorHandler(InvalidCredentials), MEMORY_DB)
        ELSE IF user.kind = "inherited"
        THEN Outcome(errorHandler(IllegalArguments), MEMORY_DB)
        ELSE IF ~compareSync(password, user.passwordhash)
        THEN Outcome(errorHandler(InvalidCredentials), MEMORY_DB)
        ELSE Outcome(Response(200, <<>>), MEMORY_DB)

\* a chain that looks up the username before it validates the body
register_ConflictFirst(body, salt) ==
    IF Truthy(getUserByUsername(body.username.v))
    THEN Outcome(errorHandler(UsernameAlreadyExists(body.username.v)),
                 MEMORY_DB)
    ELSE validateReqBody(validateRegistration(body),
                         registerHandler(body, salt))

\* app.post('/register', validateRegistration(), handler)
register(body, salt) ==
    validateReqBody(validateRegistration(body), registerHandler(body, salt))

\* app.post('/login', validateLogin(), handler)
login(body) ==
    validateReqBody(validateLogin(body), loginHandler(body))

----------------------------------------------------------------------------
(* Request bodies *)

RegisterBody(username, email, type, password) ==
    [username |-> username, email |-> email, type |-> type,
     password |-> password]

LoginBody(username, password) ==
    [username |-> username, password |-> password]

\* the other fields are determined by the email, so that two bodies with
\* different emails differ in every field but the username
BodyA(username) ==
    RegisterBody(Str(username), Str(emailA), Str(typeUser), Str(pwAbc))

BodyB(username) ==
    RegisterBody(Str(username), Str(emailB), Str(typeAdmin), Str(pwXyz))

ValidRegisterBodies ==
    {BodyA(alice), BodyB(alice), BodyA(bob),
     BodyA(constructor), BodyB(constructor)}

\* the username and the email of a valid body, with a password that
\* violates the policy
InvalidRegisterBodies ==
    {RegisterBody(Str(alice), Str(emailA), Str(typeUser), Str(pwWrong))}

RegisterBodies == ValidRegisterBodies \cup InvalidRegisterBodies

LoginBodies ==
    {LoginBody(Str(alice), Str(pwAbc)),
     LoginBody(Str(alice), Str(pwWrong)),
     LoginBody(Str(constructor), Str(pwWrong)),
     LoginBody(Str(alice), Undef)}

----------------------------------------------------------------------------
(* The server *)

Init ==
    /\ MEMORY_DB = <<>>
    /\ inflight = {}
    /\ log = <<>>
    /\ nextId = 1

Request(id, route, body) == [id |-> id, route |-> route, body |-> body]

\* a client sends a request; express.json() parses the body
Send(route, body) ==
    /\ nextId <= MaxRequests
    /\ Cardinality(inflight) < MaxInflight
    /\ inflight' = inflight \cup {Request(nextId, route, body)}
    /\ nextId' = nextId + 1
    /\ UNCHANGED <<MEMORY_DB, log>>

SendRegister(body) == Send("/register", body)

SendLogin(body) == Send("/login", body)

\* the request r is answered with the outcome out
Answer(r, out) ==
    /\ MEMORY_DB' = out.db
    /\ inflight' = inflight \ {r}
    /\ log' = Append(log, [id |-> r.id, route |-> r.route, body |-> r.body,
                           res |-> out.res,
                           size |-> Cardinality(DOMAIN out.db),
                           pending |-> {q.id : q \in inflight \ {r}}])
    /\ UNCHANGED nextId

\* the middleware chain of POST /register runs for r, in one turn of the
\* event loop
Register(r) ==
    /\ r \in inflight
    /\ r.route = "/register"
    /\ \E salt \in Salts : Answer(r, register(r.body, salt))

\* the middleware chain of POST /login runs for r
Login(r) ==
    /\ r \in inflight
    /\ r.route = "/login"
    /\ Answer(r, login(r.body))

Next ==
    \/ \E body \in RegisterBodies : SendRegister(body)
    \/ \E body \in LoginBodies : SendLogin(body)
    \/ \E r \in inflight : Register(r)
    \/ \E r \in inflight : Login(r)

Spec == Init /\ [][Next]_vars

\* the event loop runs the handler of every request that has arrived
FairSpec ==
    /\ Spec
    /\ WF_vars(\E r \in inflight : Register(r))
    /\ WF_vars(\E r \in inflight : Login(r))

----------------------------------------------------------------------------
(* A second specification for the validation rules: one request with any   *)
(* combination of field values, sent to the empty directory or after one   *)
(* successful registration.                                                *)

\* 24 characters, the longest accepted username
username24 == Fill(<<"u","s","e","r","_">>, "x", 24)

UsernameValues ==
    {Undef, Num, Str(<<>>), Str(<<"a","l">>), Str(bob), Str(alice),
     Str(constructor), Str(username24), Str(Fill(<<>>, "u", 25))}

EmailValues ==
    {Undef, Num, Str(<<>>), Str(<<"a",".","x",".","c","o","m">>),
     Str(<<"a","@","x">>), Str(emailA), Str(emailB)}

TypeValues ==
    {Undef, Num, Str(<<"r","o","o","t">>), Str(typeUser), Str(typeAdmin)}

PasswordValues ==
    {Undef, Num, Str(<<>>), Str(<<"A","b","!","1">>),
     Str(Fill(<<"A","!">>, "b", 25)),
     Str(<<"a","b","c","!","2">>), Str(<<"A","B","C","!","2">>),
     Str(<<"A","b","c","1","2">>), Str(<<"1","2","3","4","5">>),
     Str(<<"!","!","!","!","!">>), Str(<<"a","b","1">>),
     Str(pwWrong), Str(pwAbc), Str(pwXyz)}

AllRegisterBodies ==
    {RegisterBody(u, e, t, p) :
        u \in UsernameValues, e \in EmailValues, t \in TypeValues,
        p \in PasswordValues}

AllLoginBodies ==
    {LoginBody(u, p) : u \in UsernameValues, p \in PasswordValues}

\* the first request, or the second one after a successful registration
\* with one of the bodies of Spec
ProbeAllowed ==
    \/ nextId = 1
    \/ /\ nextId = 2
       /\ inflight = {}
       /\ log # <<>>
       /\ log[1].body \in ValidRegisterBodies
       /\ log[1].res.status = 201

ValNext ==
    \/ \E body \in AllRegisterBodies : ProbeAllowed /\ SendRegister(body)
    \/ \E body \in AllLoginBodies : ProbeAllowed /\ SendLogin(body)
    \/ \E r \in inflight : Register(r)
    \/ \E r \in inflight : Login(r)

ValSpec == Init /\ [][ValNext]_vars

----------------------------------------------------------------------------
(* Reading the log *)

IsRegister(e) == e.route = "/register"

IsLogin(e) == e.route = "/login"

\* a register request that was answered 201
Succeeded(e) == IsRegister(e) /\ e.res.status = 201

\* the username and the email of a handled request, as strings
UsernameOf(e) == e.body.username.v

EmailOf(e) == e.body.email.v

\* the response of the three error classes
ErrorResponse(err) ==
    Response(err.status,
             [error_name |-> err.name, error_message |-> err.message])


\* a register request whose body passed validateRegistration
ValidRegister(e) == IsRegister(e) /\ validateRegistration(e.body) = NoError

\* a login request whose body passed validateLogin
ValidLogin(e) == IsLogin(e) /\ validateLogin(e.body) = NoError

\* the number of records before the i-th handled request
SizeBefore(i) == IF i = 1 THEN 0 ELSE log[i - 1].size

\* before the i-th handled request no registration of username had succeeded
UsernameFree(i, username) ==
    \A k \in 1..(i - 1) :
        Succeeded(log[k]) => UsernameOf(log[k]) # username

\* before the i-th handled request no registration with email had succeeded
EmailFree(i, email) ==
    \A k \in 1..(i - 1) : Succeeded(log[k]) => EmailOf(log[k]) # email

\* the requests i and j were in flight at the same time, i handled first
Concurrent(i, j) == i < j /\ log[j].id \in log[i].pending

----------------------------------------------------------------------------
(* C1: in every reachable state the directory holds at most one record per *)
(* username and no two records hold the same email: no two keys of         *)
(* MEMORY_DB carry the same email, and no two successful registrations     *)
(* created a record for the same username or for the same email.           *)

C1_UniqueUsernameAndEmail ==
    /\ \A u1, u2 \in DOMAIN MEMORY_DB :
          u1 # u2 => MEMORY_DB[u1].email # MEMORY_DB[u2].email
    /\ \A i, j \in DOMAIN log :
          (i # j /\ Succeeded(log[i]) /\ Succeeded(log[j]))
          => /\ UsernameOf(log[i]) # UsernameOf(log[j])
             /\ EmailOf(log[i]) # EmailOf(log[j])
    /\ Cardinality(DOMAIN MEMORY_DB)
          = Cardinality({i \in DOMAIN log : Succeeded(log[i])})

\* two records exist and a registration with a taken email was refused
C1_Witness ==
    /\ Cardinality(DOMAIN MEMORY_DB) = 2
    /\ \E i \in DOMAIN log :
          /\ IsRegister(log[i])
          /\ log[i].res.status = 409
          /\ log[i].res.body.error_name = "EmailAlreadyExists"

----------------------------------------------------------------------------
(* C2: of two valid register requests with the same username and otherwise *)
(* distinct fields, handled one after the other when neither the username  *)
(* nor the first email is registered, the first is answered 201 and the    *)
(* second 409 UsernameAlreadyExists, and the directory grows by one record *)
(* at the first and by none at the second.                                 *)

C2_SecondSameUsernameConflicts ==
    \A i, j \in DOMAIN log :
        ( /\ i < j
          /\ ValidRegister(log[i]) /\ ValidRegister(log[j])
          /\ UsernameOf(log[i]) = UsernameOf(log[j])
          /\ log[i].body.email # log[j].body.email
          /\ log[i].body.type # log[j].body.type
          /\ log[i].body.password # log[j].body.password
          /\ UsernameFree(i, UsernameOf(log[i]))
          /\ EmailFree(i, EmailOf(log[i])) )
        => /\ log[i].res.status = 201
           /\ log[i].size = SizeBefore(i) + 1
           /\ log[j].res
                 = ErrorResponse(UsernameAlreadyExists(UsernameOf(log[j])))
           /\ log[j].size = SizeBefore(j)

----------------------------------------------------------------------------
(* C3: of two valid register requests with the same email and distinct     *)
(* usernames, handled one after the other when neither username nor the    *)
(* email is registered, the first is answered 201 and the second 409       *)
(* EmailAlreadyExists, and the second adds no record.                      *)

C3_SecondSameEmailConflicts ==
    \A i, j \in DOMAIN log :
        ( /\ i < j
          /\ ValidRegister(log[i]) /\ ValidRegister(log[j])
          /\ EmailOf(log[i]) = EmailOf(log[j])
          /\ UsernameOf(log[i]) # UsernameOf(log[j])
          /\ UsernameFree(i, UsernameOf(log[i]))
          /\ UsernameFree(j, UsernameOf(log[j]))
          /\ EmailFree(i, EmailOf(log[i])) )
        => /\ log[i].res.status = 201
           /\ log[j].res = ErrorResponse(EmailAlreadyExists(EmailOf(log[j])))
           /\ log[j].size = SizeBefore(j)

----------------------------------------------------------------------------
(* C4: a login that passes validateLogin is answered 200 if and only if a  *)
(* registration of its username succeeded earlier with the same password;  *)
(* in every other case it is answered 401 InvalidCredentials.              *)

C4_LoginIffRegisteredPassword ==
    \A j \in DOMAIN log :
        ValidLogin(log[j])
        => LET known == \E i \in 1..(j - 1) :
                            /\ Succeeded(log[i])
                            /\ UsernameOf(log[i]) = UsernameOf(log[j])
                            /\ log[i].body.password = log[j].body.password
           IN  IF known
               THEN log[j].res = Response(200, <<>>)
               ELSE log[j].res = ErrorResponse(InvalidCredentials)

----------------------------------------------------------------------------
(* C5: a rejected login gets the same response (status, error name, error  *)
(* message), that of InvalidCredentials, whether its username is not in    *)
(* the directory or is in the directory with another password.             *)

\* the i-th handled request is a valid login with a username that has no
\* record
UnknownUserLogin(i) ==
    /\ ValidLogin(log[i])
    /\ UsernameFree(i, UsernameOf(log[i]))

\* the i-th handled request is a valid login with a username that has a
\* record with another password
WrongPasswordLogin(i) ==
    /\ ValidLogin(log[i])
    /\ \E k \in 1..(i - 1) :
          /\ Succeeded(log[k])
          /\ UsernameOf(log[k]) = UsernameOf(log[i])
          /\ log[k].body.password # log[i].body.password

C5_RejectedLoginsIndistinguishable ==
    \A i, j \in DOMAIN log :
        (UnknownUserLogin(i) /\ WrongPasswordLogin(j))
        => /\ log[i].res = log[j].res
           /\ log[i].res = ErrorResponse(InvalidCredentials)

----------------------------------------------------------------------------
(* C6: when valid register requests that all use one username were in      *)
(* flight together and all are answered, exactly one was answered 201 and  *)
(* the others 409 UsernameAlreadyExists, and the directory holds one       *)
(* record for the username, that of the request answered 201.  The         *)
(* username is not registered before and no other username holds one of    *)
(* the emails.                                                             *)

\* the handled valid register requests with this username
SameUsernameGroup(username) ==
    {i \in DOMAIN log :
        ValidRegister(log[i]) /\ UsernameOf(log[i]) = username}

\* the first handled member of a non-empty set of log positions
First(G) == CHOOSE i \in G : \A j \in G : i <= j

\* all members of G were in flight when the first of them was handled
RanConcurrently(G) ==
    /\ Cardinality(G) >= 2
    /\ \A j \in G \ {First(G)} : Concurrent(First(G), j)

\* the record of username is the one the request e wrote
RecordOf(username, e) ==
    /\ username \in DOMAIN MEMORY_DB
    /\ MEMORY_DB[username].email = EmailOf(e)
    /\ MEMORY_DB[username].type = e.body.type.v
    /\ MEMORY_DB[username].salt \in Salts
    /\ MEMORY_DB[username].passwordhash
          = hashSync(e.body.password.v, MEMORY_DB[username].salt)

C6_ConcurrentSameUsername ==
    \A username \in {UsernameOf(log[i]) : i \in DOMAIN log} :
        LET G == SameUsernameGroup(username)
        IN  ( /\ G # {}
              /\ RanConcurrently(G)
              /\ \A r \in inflight :
                    r.route = "/register" => r.body.username.v # username
              /\ \A i \in G, k \in DOMAIN log :
                    (Succeeded(log[k]) /\ k \notin G)
                    => EmailOf(log[k]) # EmailOf(log[i]) )
            => \E w \in G :
                  /\ Succeeded(log[w])
                  /\ \A i \in G \ {w} :
                        log[i].res
                           = ErrorResponse(UsernameAlreadyExists(username))
                  /\ RecordOf(username, log[w])

----------------------------------------------------------------------------
(* C7: the check and the insert of register are one step for both          *)
(* constraints: a register request is answered 201 only if, in the state   *)
(* in which it writes, no record has its username and no record has its    *)
(* email; and of valid register requests with distinct unregistered        *)
(* usernames and one unregistered email that were in flight together, at   *)
(* most one is answered 201 and the others 409 EmailAlreadyExists.         *)

\* the step handles one request
HandlesRequest == Len(log') = Len(log) + 1

\* the log entry of the request the step handles
HandledEntry == log'[Len(log')]

WriteOnlyWhenAbsent ==
    (HandlesRequest /\ Succeeded(HandledEntry))
    => /\ UsernameOf(HandledEntry) \notin DOMAIN MEMORY_DB
       /\ \A k \in DOMAIN MEMORY_DB :
             MEMORY_DB[k].email # EmailOf(HandledEntry)

\* the handled valid register requests with this email
SameEmailGroup(email) ==
    {i \in DOMAIN log : ValidRegister(log[i]) /\ EmailOf(log[i]) = email}

OneWinnerPerEmail ==
    \A email \in {EmailOf(log[i]) :
                      i \in {k \in DOMAIN log : IsRegister(log[k])}} :
        LET G == SameEmailGroup(email)
        IN  ( /\ G # {}
              /\ RanConcurrently(G)
              /\ \A i, j \in G :
                    i # j => UsernameOf(log[i]) # UsernameOf(log[j])
              /\ \A i \in G, k \in DOMAIN log :
                    (Succeeded(log[k]) /\ k \notin G)
                    => UsernameOf(log[k]) # UsernameOf(log[i]) )
            => /\ Cardinality({i \in G : Succeeded(log[i])}) <= 1
               /\ \A i \in G :
                     \/ Succeeded(log[i])
                     \/ log[i].res = ErrorResponse(EmailAlreadyExists(email))

C7_AtomicCheckAndInsert ==
    [][WriteOnlyWhenAbsent]_vars /\ []OneWinnerPerEmail

----------------------------------------------------------------------------
(* C8: a register request that is answered with an error (400 validation   *)
(* failure, 409 username conflict, 409 email conflict) leaves MEMORY_DB    *)
(* exactly as it was.                                                      *)

FailedRegisterKeepsDirectory ==
    ( /\ HandlesRequest
      /\ IsRegister(HandledEntry)
      /\ HandledEntry.res.status # 201 )
    => MEMORY_DB' = MEMORY_DB

C8_FailedRegisterLeavesDirectory == [][FailedRegisterKeepsDirectory]_vars

\* a validation failure and a conflict were both answered while the
\* directory held a record
C8_Witness ==
    \E i, j \in DOMAIN log :
        /\ IsRegister(log[i]) /\ log[i].res.status = 400
        /\ IsRegister(log[j]) /\ log[j].res.status = 409
        /\ SizeBefore(i) > 0 /\ SizeBefore(j) > 0
        /\ MEMORY_DB # <<>>

----------------------------------------------------------------------------
(* C9: once a register request succeeded for a username, its record stays *)
(* in every later state with the email, type, salt and password hash       *)
(* written at creation, whatever register and login requests follow, and   *)
(* getUserByUsername returns the submitted email and type.                 *)

RecordsImmutable ==
    \A username \in DOMAIN MEMORY_DB :
        /\ username \in DOMAIN MEMORY_DB'
        /\ MEMORY_DB'[username] = MEMORY_DB[username]

RecordsAsSubmitted ==
    \A i \in DOMAIN log :
        Succeeded(log[i])
        => /\ RecordOf(UsernameOf(log[i]), log[i])
           /\ getUserByUsername(UsernameOf(log[i])).email = EmailOf(log[i])
           /\ getUserByUsername(UsernameOf(log[i])).type
                 = log[i].body.type.v

C9_RecordsPersistUnchanged ==
    [][RecordsImmutable]_vars /\ []RecordsAsSubmitted

\* after a successful registration, a second registration of the username
\* with other fields and a login were handled
C9_Witness ==
    /\ Len(log) = 3
    /\ Succeeded(log[1])
    /\ \E i, j \in 2..3 :
          /\ ValidRegister(log[i])
          /\ UsernameOf(log[i]) = UsernameOf(log[1])
          /\ EmailOf(log[i]) # EmailOf(log[1])
          /\ ValidLogin(log[j])
          /\ UsernameOf(log[j]) = UsernameOf(log[1])

----------------------------------------------------------------------------
(* C10: registration validation is fail-fast in the order username, email, *)
(* type, password: the response is 400 with the message of a rule of the   *)
(* first field, in this order, whose value is not acceptable, whatever the *)
(* later fields hold; the empty body is answered '"username" is required'; *)
(* a body whose four fields are acceptable is not answered 400.            *)

AcceptableUsername(x) == IsString(x) /\ Len(x.v) >= 3 /\ Len(x.v) <= 24

AcceptableEmail(x) == IsString(x) /\ IsEmail(x.v)

AcceptableType(x) == x = Str(typeUser) \/ x = Str(typeAdmin)

AcceptablePassword(x) ==
    /\ IsString(x) /\ Len(x.v) >= 5 /\ Len(x.v) <= 24
    /\ \E i \in DOMAIN x.v : x.v[i] \in UpperChars
    /\ \E i \in DOMAIN x.v : x.v[i] \in LowerChars
    /\ \E i \in DOMAIN x.v :
          x.v[i] \notin UpperChars \cup LowerChars \cup DigitChars

UsernameMessages ==
    {"\"username\" is required",
     "\"username\" is not allowed to be empty",
     "\"username\" must be a string",
     "\"username\" length must be at least 3 characters long",
     "\"username\" length must be less than or equal to 24 characters long"}

EmailMessages ==
    {"\"email\" is required",
     "\"email\" is not allowed to be empty",
     "\"email\" must be a string",
     "\"email\" must be a valid email"}

TypeMessages ==
    {"\"type\" is required", "\"type\" must be one of [user, admin]"}

PasswordMessages ==
    {"\"password\" is required",
     "\"password\" is not allowed to be empty",
     "\"password\" must be a string",
     "\"password\" length must be at least 5 characters long",
     "\"password\" length must be less than or equal to 24 characters long",
     "password must have an upper case character",
     "password must have a lower case character",
     "password must have a special case character"}

\* the response is 400 with one of the messages
Rejected400(res, messages) ==
    /\ res.status = 400
    /\ DOMAIN res.body = {"error"}
    /\ res.body.error \in messages

C10_ValidationFailFast ==
    \A i \in DOMAIN log :
        IsRegister(log[i])
        => LET b == log[i].body
               res == log[i].res
           IN  /\ IF ~AcceptableUsername(b.username)
                  THEN Rejected400(res, UsernameMessages)
                  ELSE IF ~AcceptableEmail(b.email)
                  THEN Rejected400(res, EmailMessages)
                  ELSE IF ~AcceptableType(b.type)
                  THEN Rejected400(res, TypeMessages)
                  ELSE IF ~AcceptablePassword(b.password)
                  THEN Rejected400(res, PasswordMessages)
                  ELSE res.status # 400
               /\ b = RegisterBody(Undef, Undef, Undef, Undef)
                  => Rejected400(res, {"\"username\" is required"})

\* a body with an acceptable username and an unacceptable email, type and
\* password was answered with a message about the email, and the empty
\* body was answered after a record had been stored
C10_Witness ==
    \E i \in DOMAIN log :
        /\ IsRegister(log[i])
        /\ SizeBefore(i) > 0
        /\ AcceptableUsername(log[i].body.username)
        /\ ~AcceptableEmail(log[i].body.email)
        /\ ~AcceptableType(log[i].body.type)
        /\ ~AcceptablePassword(log[i].body.password)
        /\ Rejected400(log[i].res, EmailMessages)

----------------------------------------------------------------------------
(* C11: a register request whose username, email and type are acceptable   *)
(* and whose password is a string that lacks an upper case letter, a lower *)
(* case letter or a character outside letters and digits is answered 400   *)
(* with the message of the first missing class in the order upper, lower,  *)
(* special.                                                                *)

HasUpper(s) == \E i \in DOMAIN s : s[i] \in UpperChars

HasLower(s) == \E i \in DOMAIN s : s[i] \in LowerChars

HasSpecial(s) ==
    \E i \in DOMAIN s : s[i] \notin UpperChars \cup LowerChars \cup DigitChars

\* the message of the first class the string lacks
FirstMissingClass(s) ==
    IF ~HasUpper(s) THEN "password must have an upper case character"
    ELSE IF ~HasLower(s) THEN "password must have a lower case character"
    ELSE "password must have a special case character"

\* the i-th handled request is a register request with acceptable username,
\* email and type and a password string that lacks a class
LacksClass(i) ==
    /\ IsRegister(log[i])
    /\ AcceptableUsername(log[i].body.username)
    /\ AcceptableEmail(log[i].body.email)
    /\ AcceptableType(log[i].body.type)
    /\ IsString(log[i].body.password)
    /\ ~ ( /\ HasUpper(log[i].body.password.v)
           /\ HasLower(log[i].body.password.v)
           /\ HasSpecial(log[i].body.password.v) )

\* the claim as stated: for a password string of any length
C11_MissingClassAnyLength ==
    \A i \in DOMAIN log :
        LacksClass(i)
        => Rejected400(log[i].res,
                       {FirstMissingClass(log[i].body.password.v)})

\* C11 as amended: the password has 5 to 24 characters; a shorter or longer
\* password is answered 400 with a message about its length or emptiness
C11_MissingClassNamed ==
    \A i \in DOMAIN log :
        LacksClass(i)
        => IF /\ Len(log[i].body.password.v) >= 5
              /\ Len(log[i].body.password.v) <= 24
           THEN Rejected400(log[i].res,
                            {FirstMissingClass(log[i].body.password.v)})
           ELSE Rejected400(log[i].res,
                    {"\"password\" is not allowed to be empty",
                     "\"password\" length must be at least 5 characters long",
                     "\"password\" length must be less than or equal to 24 characters long"})

\* a password of five digits, which lacks the three classes, was answered
\* with the message of the upper case class
C11_Witness ==
    \E i \in DOMAIN log :
        /\ LacksClass(i)
        /\ Len(log[i].body.password.v) = 5
        /\ ~HasUpper(log[i].body.password.v)
        /\ ~HasLower(log[i].body.password.v)
        /\ ~HasSpecial(log[i].body.password.v)
        /\ Rejected400(log[i].res,
                       {"password must have an upper case character"})

----------------------------------------------------------------------------
(* C12: the body of a 201 response of register holds exactly username,     *)
(* email and type as submitted, and every response of register and login   *)
(* is one of the responses that are built from the submitted username,     *)
(* email and type and from fixed texts: none has a key or a value taken    *)
(* from the salt, the password hash or the password.                       *)

\* the responses that can be built for the request of e without its
\* password and without a stored salt or hash
PublicResponses(e) ==
    {Response(400, [error |-> m]) :
        m \in UsernameMessages \cup EmailMessages \cup TypeMessages
              \cup PasswordMessages}
    \cup {ErrorResponse(UsernameAlreadyExists(UsernameOf(e))),
          ErrorResponse(InvalidCredentials),
          Response(500, [unhandled |-> IllegalArguments.message]),
          Response(200, <<>>)}
    \cup (IF IsRegister(e)
          THEN {ErrorResponse(EmailAlreadyExists(EmailOf(e))),
                Response(201, [username |-> UsernameOf(e),
                               email |-> EmailOf(e),
                               type |-> e.body.type.v])}
          ELSE {})

SecretKeys == {"salt", "passwordhash", "password"}

C12_ResponsesHoldNoSecret ==
    \A i \in DOMAIN log :
        /\ Succeeded(log[i])
           => /\ DOMAIN log[i].res.body = {"username", "email", "type"}
              /\ log[i].res.body.username = UsernameOf(log[i])
              /\ log[i].res.body.email = EmailOf(log[i])
              /\ log[i].res.body.type = log[i].body.type.v
        /\ DOMAIN log[i].res.body \cap SecretKeys = {}
        /\ log[i].res \in PublicResponses(log[i])

\* a registration was answered 201 and a login with its password 200
C12_Witness ==
    /\ Len(log) = 2
    /\ Succeeded(log[1])
    /\ IsLogin(log[2])
    /\ log[2].res.status = 200
    /\ log[2].body.password = log[1].body.password

----------------------------------------------------------------------------
(* C13: each error kind has one fixed status: a body that fails validation *)
(* of register or login is answered 400 (and only such a body),            *)
(* UsernameAlreadyExists and EmailAlreadyExists are answered 409,          *)
(* InvalidCredentials 401, and any other error is passed on unchanged:     *)
(* errorHandler writes no error_name and error_message for it.             *)

\* what validateLogin accepts for a key
AcceptableLoginField(x) == IsString(x) /\ x.v # <<>>

\* the body of the handled request passes the validation of its route
AcceptableBody(e) ==
    IF IsRegister(e)
    THEN /\ AcceptableUsername(e.body.username)
         /\ AcceptableEmail(e.body.email)
         /\ AcceptableType(e.body.type)
         /\ AcceptablePassword(e.body.password)
    ELSE /\ AcceptableLoginField(e.body.username)
         /\ AcceptableLoginField(e.body.password)

C13_ErrorKindStatus ==
    \A i \in DOMAIN log :
        LET res == log[i].res
        IN  /\ res.status \in {200, 201, 400, 401, 409, 500}
            /\ ~AcceptableBody(log[i])
               <=> (res.status = 400 /\ DOMAIN res.body = {"error"})
            /\ res.status = 409
               <=> /\ DOMAIN res.body = {"error_name", "error_message"}
                   /\ res.body.error_name
                         \in {"UsernameAlreadyExists", "EmailAlreadyExists"}
            /\ res.status = 401
               <=> /\ DOMAIN res.body = {"error_name", "error_message"}
                   /\ res.body.error_name = "InvalidCredentials"
            /\ res.status = 500
               <=> res.body = [unhandled |-> IllegalArguments.message]

\* after a registration, the error thrown by compareSync was passed on
C13_Witness ==
    /\ Len(log) = 2
    /\ Succeeded(log[1])
    /\ IsLogin(log[2])
    /\ log[2].res.status = 500
    /\ DOMAIN log[2].res.body = {"unhandled"}

----------------------------------------------------------------------------
(* C14: every register or login request eventually gets exactly one        *)
(* terminal result, one of success, validation failure, username conflict, *)
(* email conflict and invalid credentials: no request stays unanswered,    *)
(* none is answered twice, whatever requests run concurrently.             *)

\* the request with this id has been answered
Answered(id) == \E i \in DOMAIN log : log[i].id = id

\* the response is one of the five terminal results
TerminalResult(res) ==
    \/ res.status \in {200, 201}
    \/ res.status = 400 /\ DOMAIN res.body = {"error"}
    \/ /\ DOMAIN res.body = {"error_name", "error_message"}
       /\ res.body.error_name \in {"UsernameAlreadyExists",
                                   "EmailAlreadyExists",
                                   "InvalidCredentials"}

\* no request is answered twice or answered while still in flight, and
\* every answer is a terminal result
OneTerminalResult ==
    /\ \A i, j \in DOMAIN log : i # j => log[i].id # log[j].id
    /\ \A r \in inflight : ~Answered(r.id)
    /\ \A i \in DOMAIN log : TerminalResult(log[i].res)

\* every request that was sent is answered
EveryRequestAnswered ==
    \A id \in 1..MaxRequests : (nextId > id) ~> Answered(id)

C14_OneTerminalResult == []OneTerminalResult /\ EveryRequestAnswered

----------------------------------------------------------------------------
(* C15: validation precedes every access to the directory in register: a   *)
(* register request whose body violates a rule is answered with the        *)
(* validation failure whatever the directory holds, also when its username *)
(* or email is registered, and the handler that reads and writes MEMORY_DB *)
(* does not run: no conflict is reported and no record is written.         *)

\* before the i-th handled request a record held this username or email
Registered(i, e) ==
    \/ ~UsernameFree(i, UsernameOf(e))
    \/ ~EmailFree(i, EmailOf(e))

C15_ValidationBeforeDirectory ==
    \A i \in DOMAIN log :
        (IsRegister(log[i]) /\ ~AcceptableBody(log[i]))
        => /\ Rejected400(log[i].res,
                          UsernameMessages \cup EmailMessages
                              \cup TypeMessages \cup PasswordMessages)
           /\ log[i].res
                 = Response(400, [error |-> validateRegistration(log[i].body)])
           /\ log[i].size = SizeBefore(i)

\* a body with a registered username, a registered email and an
\* unacceptable password was answered 400
C15_Witness ==
    /\ Len(log) = 2
    /\ Succeeded(log[1])
    /\ IsRegister(log[2])
    /\ UsernameOf(log[2]) = UsernameOf(log[1])
    /\ EmailOf(log[2]) = EmailOf(log[1])
    /\ ~AcceptablePassword(log[2].body.password)
    /\ Registered(2, log[2])
    /\ log[2].res.status = 400

----------------------------------------------------------------------------
(* C16: conflict precedence in register: a valid request whose username    *)
(* has a record and whose email is held by a record, the same or another,  *)
(* is answered UsernameAlreadyExists; EmailAlreadyExists is answered only  *)
(* when no record has the username and a record holds the email.           *)

\* a record of the directory has this username
UsernameHeld(username) == username \in DOMAIN MEMORY_DB

\* a record of the directory holds this email
EmailHeld(email) ==
    \E k \in DOMAIN MEMORY_DB : MEMORY_DB[k].email = email

ConflictPrecedence ==
    (HandlesRequest /\ ValidRegister(HandledEntry))
    => LET username == UsernameOf(HandledEntry)
           email == EmailOf(HandledEntry)
           res == HandledEntry.res
       IN  /\ (UsernameHeld(username) /\ EmailHeld(email))
              => res = ErrorResponse(UsernameAlreadyExists(username))
           /\ ( /\ res.status = 409
                /\ res.body.error_name = "EmailAlreadyExists" )
              => /\ ~UsernameHeld(username)
                 /\ EmailHeld(email)
                 /\ res = ErrorResponse(EmailAlreadyExists(email))

C16_UsernameConflictFirst == [][ConflictPrecedence]_vars

\* a request whose username has a record and whose email is held by the
\* record of another username was answered UsernameAlreadyExists
C16_Witness ==
    \E j \in DOMAIN log :
        /\ ValidRegister(log[j])
        /\ log[j].res
              = ErrorResponse(UsernameAlreadyExists(UsernameOf(log[j])))
        /\ \E k \in 1..(j - 1) :
              /\ Succeeded(log[k])
              /\ UsernameOf(log[k]) = UsernameOf(log[j])
              /\ EmailOf(log[k]) # EmailOf(log[j])
        /\ \E k \in 1..(j - 1) :
              /\ Succeeded(log[k])
              /\ UsernameOf(log[k]) # UsernameOf(log[j])
              /\ EmailOf(log[k]) = EmailOf(log[j])

----------------------------------------------------------------------------
(* C17: login validation requires only that username and password are      *)
(* present strings (joi.string() takes the empty string as absent) and     *)
(* never applies the password policy of registration: a login whose        *)
(* password violates the policy is not answered 400 but decided by the     *)
(* lookup and the hash comparison, InvalidCredentials when it does not     *)
(* match.                                                                  *)

C17_LoginNoPasswordPolicy ==
    \A i \in DOMAIN log :
        IsLogin(log[i])
        => LET username == log[i].body.username
               password == log[i].body.password
               res == log[i].res
           IN  /\ res.status = 400
                  <=> ~ ( /\ AcceptableLoginField(username)
                          /\ AcceptableLoginField(password) )
               /\ ( /\ AcceptableLoginField(username)
                    /\ AcceptableLoginField(password)
                    /\ ~AcceptablePassword(password) )
                  => res = ErrorResponse(InvalidCredentials)

----------------------------------------------------------------------------
(* C18: no spurious conflicts: a valid register request is answered        *)
(* UsernameAlreadyExists only if an earlier registration of exactly that   *)
(* username succeeded, and EmailAlreadyExists only if an earlier           *)
(* successful registration stored exactly that email; on the empty         *)
(* directory every valid register request is answered 201, for every       *)
(* username of 3 to 24 characters.                                         *)

C18_NoSpuriousConflicts ==
    \A j \in DOMAIN log :
        (IsRegister(log[j]) /\ AcceptableBody(log[j]))
        => LET res == log[j].res
           IN  /\ res.status = 409
                  => /\ res.body.error_name = "UsernameAlreadyExists"
                        => ~UsernameFree(j, UsernameOf(log[j]))
                     /\ res.body.error_name = "EmailAlreadyExists"
                        => ~EmailFree(j, EmailOf(log[j]))
               /\ SizeBefore(j) = 0 => res.status = 201

----------------------------------------------------------------------------
(* C19: login is read-only: every login request, answered 200, 400, 401 or *)
(* otherwise, leaves MEMORY_DB unchanged, so that the directory, which     *)
(* decides every later register and login, holds the records of the        *)
(* successful registrations whatever logins were handled.                  *)

LoginKeepsDirectory ==
    (HandlesRequest /\ IsLogin(HandledEntry)) => MEMORY_DB' = MEMORY_DB

\* the directory holds one record per successful registration and no other
DirectoryFromRegistrations ==
    /\ DOMAIN MEMORY_DB
          = {UsernameOf(log[i]) : i \in {k \in DOMAIN log : Succeeded(log[k])}}
    /\ \A i \in DOMAIN log : IsLogin(log[i]) => log[i].size = SizeBefore(i)

C19_LoginReadOnly ==
    [][LoginKeepsDirectory]_vars /\ []DirectoryFromRegistrations

\* after a registration, a login was answered 200 and a login was refused
C19_Witness ==
    /\ MEMORY_DB # <<>>
    /\ \E i, j \in DOMAIN log :
          /\ IsLogin(log[i]) /\ log[i].res.status = 200
          /\ IsLogin(log[j]) /\ log[j].res.status \in {400, 401}
          /\ SizeBefore(j) > 0

====
